---- MODULE Spec2Model ----
(***************************************************************************)
(* Model of node2/game.c: the game core that runs one control-loop         *)
(* iteration per TC0 timer tick (game_run), keeps score and lives, detects *)
(* ball loss through the IR beam (game_count_fails) and reports it on CAN. *)
(*                                                                         *)
(* Two execution contexts are modelled.  The main context executes the     *)
(* configuration calls statement by statement (pc names the call in        *)
(* progress and how far it has got).  The timer interrupt executes         *)
(* game_run as one step, at any point between two main-context statements, *)
(* whenever the timer channel is delivering interrupts.                    *)
(***************************************************************************)
EXTENDS Integers, Sequences, FiniteSets, TLC

----------------------------------------------------------------------------
(* Program constants (game.c lines 18-36).                                 *)

IR_TRESHOLD == 1000
NUMBER_OF_LIVES == 3

K_P_HARD == 35
K_I_HARD == 20
K_D_HARD == 1
K_P_EXTREME == 20
K_I_EXTREME == 10
K_D_EXTREME == 1
K_P_IMPOSSIBLE == 40
K_I_IMPOSSIBLE == 25
K_D_IMPOSSIBLE == 1

\* 0x4FF, 0x3FF, 0x4FF
MB_SPEED_HARD == 1279
MB_SPEED_EXTREME == 1023
MB_SPEED_IMPOSSIBLE == 1279
MAX_MOTOR_SPEED == 1279

(* Names the headers outside game.c give.                                  *)
SLIDER_MAX == 100
INITIAL_LIVES == 3
GAME_LIVES_LEFT_ID == "GAME_LIVES_LEFT_ID"

HARD == "HARD"
EXTREME == "EXTREME"
IMPOSSIBLE == "IMPOSSIBLE"
DIFFICULTY == {HARD, EXTREME, IMPOSSIBLE}

SLIDER_POS_CTRL == "SLIDER_POS_CTRL"
JOYSTICK_SPEED_CTRL == "JOYSTICK_SPEED_CTRL"
MICROBIT_SPEED_CTRL == "MICROBIT_SPEED_CTRL"
\* a CONTROLLER_SEL value that matches no case label of game_run's switch
OTHER_CTRL == "OTHER_CTRL"
CONTROLLER_SEL == {SLIDER_POS_CTRL, JOYSTICK_SPEED_CTRL, MICROBIT_SPEED_CTRL, OTHER_CTRL}

ACC_LEFT == "ACC_LEFT"
ACC_RIGHT == "ACC_RIGHT"
\* any ACC_DIR value that is neither left nor right
ACC_MIDDLE == "ACC_MIDDLE"
ACC_DIR == {ACC_LEFT, ACC_RIGHT, ACC_MIDDLE}

----------------------------------------------------------------------------
(* Bounds of the model.                                                    *)

\* ticks delivered in one behaviour of Spec
MaxTicks == 3
\* ticks delivered in one behaviour of SpecLives
MaxLivesTicks == 8

----------------------------------------------------------------------------
(* unsigned int (32 bits on the SAM3X) as <<high half-word, low half-word>>*)

HalfWord == 2^16

U32(n) == <<n \div HalfWord, n % HalfWord>>

\* ++x on an unsigned int
Inc32(v) ==
    IF v[2] = HalfWord - 1
    THEN IF v[1] = HalfWord - 1 THEN <<0, 0>> ELSE <<v[1] + 1, 0>>
    ELSE <<v[1], v[2] + 1>>

\* --x on an unsigned int: 0 wraps to 0xFFFFFFFF
Dec32(v) ==
    IF v[2] = 0
    THEN IF v[1] = 0 THEN <<HalfWord - 1, HalfWord - 1>> ELSE <<v[1] - 1, HalfWord - 1>>
    ELSE <<v[1], v[2] - 1>>

\* conversion of an unsigned int to int (two's complement): the value
\* game_get_score returns
ToInt(v) ==
    IF v[1] < HalfWord \div 2
    THEN v[1] * HalfWord + v[2]
    ELSE (v[1] - HalfWord) * HalfWord + v[2]

\* conversion of an unsigned int to the one byte a CAN data field holds
ToByte(v) == v[2] % 256

----------------------------------------------------------------------------
(* Inputs.                                                                 *)

\* adc_read() results: just below, at and just above the threshold
Levels == {IR_TRESHOLD - 1, IR_TRESHOLD, IR_TRESHOLD + 1}

\* the raw 6-byte frames node 1 sends:
\* joystick_x, joystick_y, slider_left, slider_right, button_left, button_right
RawFrames == { <<255, 0, 255, 204, 0, 1>>, <<0, 255, 0, 51, 1, 0>> }

\* user_input_scaling.h: a raw byte to -100..100 and to 0..SLIDER_MAX
joystick_scale_x(b) == (b * 200) \div 255 - 100
joystick_scale_y(b) == (b * 200) \div 255 - 100
slider_scale_left(b) == (b * SLIDER_MAX) \div 255
slider_scale_right(b) == (b * SLIDER_MAX) \div 255

\* user_data as game_set_user_data leaves it after a whole frame
Scaled(data) ==
    [ joystick_x   |-> joystick_scale_x(data[1]),
      joystick_y   |-> joystick_scale_y(data[2]),
      slider_left  |-> slider_scale_left(data[3]),
      slider_right |-> slider_scale_right(data[4]),
      button_left  |-> data[5],
      button_right |-> data[6] ]

\* user_data at program start: a static object, zero-initialised
ZeroUserData ==
    [ joystick_x |-> 0, joystick_y |-> 0, slider_left |-> 0,
      slider_right |-> 0, button_left |-> 0, button_right |-> 0 ]

----------------------------------------------------------------------------
(* The pure parts of game_run.  A log entry is <<call or statement, value>>;*)
(* a log lists what a step did, in program order.                          *)

\* game_count_fails without the counting_flag test: every low sample counts
game_count_fails_unlatched(ir_level, lives, flag) ==
    IF ir_level < IR_TRESHOLD
    THEN [ lives_left |-> Dec32(lives), counting_flag |-> 1, ret |-> 1,
           log |-> << <<"adc_read", ir_level>>, <<"--lives_left", Dec32(lives)>> >> ]
    ELSE [ lives_left |-> lives,
           counting_flag |-> IF ir_level > IR_TRESHOLD THEN 0 ELSE flag,
           ret |-> 0, log |-> << <<"adc_read", ir_level>> >> ]

\* game_count_fails re-arming with >= instead of >
game_count_fails_rearm_at(ir_level, lives, flag) ==
    IF ir_level < IR_TRESHOLD /\ flag = 0
    THEN [ lives_left |-> Dec32(lives), counting_flag |-> 1, ret |-> 1,
           log |-> << <<"adc_read", ir_level>>, <<"--lives_left", Dec32(lives)>> >> ]
    ELSE [ lives_left |-> lives,
           counting_flag |-> IF ir_level >= IR_TRESHOLD THEN 0 ELSE flag,
           ret |-> 0, log |-> << <<"adc_read", ir_level>> >> ]

\* game_count_fails that counts a sample at the threshold as a failure
game_count_fails_below_or_at(ir_level, lives, flag) ==
    IF ir_level <= IR_TRESHOLD /\ flag = 0
    THEN [ lives_left |-> Dec32(lives), counting_flag |-> 1, ret |-> 1,
           log |-> << <<"adc_read", ir_level>>, <<"--lives_left", Dec32(lives)>> >> ]
    ELSE IF ir_level > IR_TRESHOLD
         THEN [ lives_left |-> lives, counting_flag |-> 0, ret |-> 0,
                log |-> << <<"adc_read", ir_level>> >> ]
         ELSE [ lives_left |-> lives, counting_flag |-> flag, ret |-> 0,
                log |-> << <<"adc_read", ir_level>> >> ]

\* game_count_fails on the sample ir_level = adc_read(): the new lives_left
\* and counting_flag, the value returned and the log of what it did
game_count_fails(ir_level, lives, flag) ==
    IF ir_level < IR_TRESHOLD /\ flag = 0
    THEN [ lives_left |-> Dec32(lives), counting_flag |-> 1, ret |-> 1,
           log |-> << <<"adc_read", ir_level>>, <<"--lives_left", Dec32(lives)>> >> ]
    ELSE IF ir_level > IR_TRESHOLD
         THEN [ lives_left |-> lives, counting_flag |-> 0, ret |-> 0,
                log |-> << <<"adc_read", ir_level>> >> ]
         ELSE [ lives_left |-> lives, counting_flag |-> flag, ret |-> 0,
                log |-> << <<"adc_read", ir_level>> >> ]

\* SliderTarget that inverts under EXTREME as well
SliderTarget_extreme(diff, ud) ==
    IF diff # HARD THEN SLIDER_MAX - ud.slider_right ELSE ud.slider_right

\* the argument of motor_run_slider
SliderTarget(diff, ud) ==
    IF diff = IMPOSSIBLE THEN SLIDER_MAX - ud.slider_right ELSE ud.slider_right

\* JoystickSpeed that never negates
JoystickSpeed_plain(diff, ud) == ud.joystick_x

\* the argument of motor_run_joystick
JoystickSpeed(diff, ud) ==
    IF diff = IMPOSSIBLE THEN 0 - ud.joystick_x ELSE ud.joystick_x

\* MicrobitDirection whose second branch repeats the first
MicrobitDirection_oneway(diff, direction) ==
    IF diff = IMPOSSIBLE
    THEN IF direction = ACC_RIGHT THEN ACC_LEFT
         ELSE IF direction = ACC_LEFT THEN ACC_LEFT
         ELSE direction
    ELSE direction

\* the argument of motor_run_microbit, from direction = microbit_dir()
MicrobitDirection(diff, direction) ==
    IF diff = IMPOSSIBLE
    THEN IF direction = ACC_RIGHT THEN ACC_LEFT
         ELSE IF direction = ACC_LEFT THEN ACC_RIGHT
         ELSE direction
    ELSE direction

\* the switch over controller_select: the driver calls it makes, in order
\* the switch with a default branch that drives the motor and the servo from
\* the slider and the joystick; the MICROBIT_SPEED_CTRL case falls into it
Actuation_default_actuates(controller, diff, ud, direction, button) ==
    LET default == << <<"motor_run_slider", SliderTarget(diff, ud)>>,
                      <<"servo_set_position", ud.joystick_x>> >>
    IN  CASE controller = SLIDER_POS_CTRL ->
               << <<"motor_run_slider", SliderTarget(diff, ud)>>,
                  <<"servo_set_position", ud.joystick_x>>,
                  <<"solenoid_run_button", ud.button_right>> >>
          [] controller = JOYSTICK_SPEED_CTRL ->
               << <<"motor_run_joystick", JoystickSpeed(diff, ud)>>,
                  <<"servo_set_position", 2 * (ud.slider_right - 50)>>,
                  <<"solenoid_run_button", ud.button_right>> >>
          [] controller = MICROBIT_SPEED_CTRL ->
               << <<"microbit_dir", direction>>,
                  <<"motor_run_microbit", MicrobitDirection(diff, direction)>>,
                  <<"servo_set_position", ud.joystick_x>>,
                  <<"microbit_button", button>>,
                  <<"solenoid_run_button", button>> >> \o default
          [] OTHER -> default

Actuation(controller, diff, ud, direction, button) ==
    CASE controller = SLIDER_POS_CTRL ->
           << <<"motor_run_slider", SliderTarget(diff, ud)>>,
              <<"servo_set_position", ud.joystick_x>>,
              <<"solenoid_run_button", ud.button_right>> >>
      [] controller = JOYSTICK_SPEED_CTRL ->
           << <<"motor_run_joystick", JoystickSpeed(diff, ud)>>,
              <<"servo_set_position", 2 * (ud.slider_right - 50)>>,
              <<"solenoid_run_button", ud.button_right>> >>
      [] controller = MICROBIT_SPEED_CTRL ->
           << <<"microbit_dir", direction>>,
              <<"motor_run_microbit", MicrobitDirection(diff, direction)>>,
              <<"servo_set_position", ud.joystick_x>>,
              <<"microbit_button", button>>,
              <<"solenoid_run_button", button>> >>
      [] OTHER -> << >>

\* the CAN_MESSAGE game_run builds; data holds bytes
LivesLeftMessage(lives) ==
    [id |-> GAME_LIVES_LEFT_ID, data_length |-> 1, data |-> ToByte(lives)]

\* what game_run does with the value game_count_fails returned
Notification(ret, lives) ==
    IF ret # 0 THEN << <<"can_send", LivesLeftMessage(lives)>> >> ELSE << >>

\* game_run whose default branch returns instead of breaking
game_run_body_default_returns(controller, diff, ud, lives, flag, sc, ir_level, direction, button) ==
    LET fails == game_count_fails(ir_level, lives, flag)
        matched == controller \in {SLIDER_POS_CTRL, JOYSTICK_SPEED_CTRL, MICROBIT_SPEED_CTRL}
    IN  IF matched
        THEN [ lives_left    |-> fails.lives_left,
               counting_flag |-> fails.counting_flag,
               score         |-> Inc32(sc),
               log |-> Actuation(controller, diff, ud, direction, button)
                       \o fails.log
                       \o Notification(fails.ret, fails.lives_left)
                       \o << <<"++score", Inc32(sc)>> >> ]
        ELSE [ lives_left |-> lives, counting_flag |-> flag, score |-> sc,
               log |-> << <<"adc_read", ir_level>>, <<"++score", sc>> >> ]

\* game_run with the failure detection moved in front of the switch and the
\* score incremented before the message is sent
game_run_body_detect_first(controller, diff, ud, lives, flag, sc, ir_level, direction, button) ==
    LET fails == game_count_fails(ir_level, lives, flag)
    IN  [ lives_left    |-> fails.lives_left,
          counting_flag |-> fails.counting_flag,
          score         |-> Inc32(sc),
          log |-> fails.log
                  \o Actuation(controller, diff, ud, direction, button)
                  \o << <<"++score", Inc32(sc)>> >>
                  \o Notification(fails.ret, fails.lives_left) ]

\* game_run from its first statement to its last: the new game state and
\* the log of what it did
game_run_body(controller, diff, ud, lives, flag, sc, ir_level, direction, button) ==
    LET fails == game_count_fails(ir_level, lives, flag)
    IN  [ lives_left    |-> fails.lives_left,
          counting_flag |-> fails.counting_flag,
          score         |-> Inc32(sc),
          log |-> Actuation(controller, diff, ud, direction, button)
                  \o fails.log
                  \o Notification(fails.ret, fails.lives_left)
                  \o << <<"++score", Inc32(sc)>> >> ]

\* the gains and the microbit speed game_set_difficulty's switch pushes
DifficultyGains(d) ==
    CASE d = HARD       -> <<K_P_HARD, K_I_HARD, K_D_HARD>>
      [] d = EXTREME    -> <<K_P_EXTREME, K_I_EXTREME, K_D_EXTREME>>
      [] d = IMPOSSIBLE -> <<K_P_IMPOSSIBLE, K_I_IMPOSSIBLE, K_D_IMPOSSIBLE>>

\* DifficultySpeed whose EXTREME case passes the HARD speed
DifficultySpeed_copied(d) ==
    CASE d = HARD       -> MB_SPEED_HARD
      [] d = EXTREME    -> MB_SPEED_HARD
      [] d = IMPOSSIBLE -> MB_SPEED_IMPOSSIBLE

DifficultySpeed(d) ==
    CASE d = HARD       -> MB_SPEED_HARD
      [] d = EXTREME    -> MB_SPEED_EXTREME
      [] d = IMPOSSIBLE -> MB_SPEED_IMPOSSIBLE

----------------------------------------------------------------------------
(* State.                                                                  *)

VARIABLES
    score,              \* static unsigned int score
    lives_left,         \* static unsigned int lives_left
    counting_flag,      \* static unsigned int counting_flag
    controller_select,  \* static CONTROLLER_SEL controller_select
    difficulty_select,  \* static DIFFICULTY difficulty_select
    user_data,          \* static struct user_input_data user_data
    pid,                \* the PID controller's gains and output limit
    mb_speed,           \* the motor driver's microbit speed
    tc_clk,             \* TC0 channel 0 clock enabled (TC_CCR)
    tc_irq,             \* RC compare interrupt enabled (TC_IER and NVIC)
    pc,                 \* main context: "idle" or the statement to execute next
    data,               \* argument of the game_set_user_data in progress
    difficulty,         \* argument of the game_set_difficulty in progress
    log,                \* what the step just taken did, in program order
    h                   \* history of the run (not program state)

gameVars   == <<score, lives_left, counting_flag>>
configVars == <<controller_select, difficulty_select>>
driverVars == <<pid, mb_speed>>
timerVars  == <<tc_clk, tc_irq>>
mainVars   == <<pc, data, difficulty>>
vars == <<score, lives_left, counting_flag, controller_select, difficulty_select,
          user_data, pid, mb_speed, tc_clk, tc_irq, pc, data, difficulty, log, h>>

NoData == << >>
NoDifficulty == "none"

InitHistory ==
    [ nticks     |-> 0,      \* ticks delivered
      sinceReset |-> 0,      \* ticks since score was last set to 0
      runLen     |-> 0,      \* consecutive below-threshold ticks up to the last tick
      runArmed   |-> FALSE,  \* counting_flag was 0 when that run began
      runLives   |-> <<0, 0>>, \* lives_left when that run began
      runClean   |-> FALSE,  \* lives_left not reset since that run began
      runs       |-> 0,      \* runs of consecutive below-threshold ticks begun
      lost       |-> 0,      \* ticks that decremented lives_left
      armedRuns  |-> 0,      \* below-threshold ticks with no such tick since the
                             \* last above-threshold tick
      latched    |-> FALSE,  \* a below-threshold tick since the last above one
      lastDifficulty |-> "none", \* argument of the game_set_difficulty that
                             \* returned last, with no game_set_difficulty or
                             \* game_init begun since
      loopEnabled |-> FALSE ] \* game_timer_enable returned, with no
                             \* game_timer_disable or game_init returned since

Init ==
    /\ score = <<0, 0>>
    /\ lives_left = <<0, 0>>
    /\ counting_flag = 0
    /\ controller_select = SLIDER_POS_CTRL
    /\ difficulty_select = HARD
    /\ user_data = ZeroUserData
    /\ pid = [K_p |-> 0, K_i |-> 0, K_d |-> 0, max_u |-> 0]
    /\ mb_speed = 0
    /\ tc_clk = FALSE
    /\ tc_irq = FALSE
    /\ pc = "idle"
    /\ data = NoData
    /\ difficulty = NoDifficulty
    /\ log = << >>
    /\ h = InitHistory

----------------------------------------------------------------------------
(* The history a tick and a reset leave.                                   *)

Observe(hh, ir_level, flagBefore, livesBefore, livesAfter) ==
    LET below  == ir_level < IR_TRESHOLD
        above  == ir_level > IR_TRESHOLD
        newRun == below /\ hh.runLen = 0
        bump(c, n) == IF c THEN n + 1 ELSE n
    IN  [ nticks     |-> hh.nticks + 1,
          sinceReset |-> hh.sinceReset + 1,
          runLen     |-> IF below THEN hh.runLen + 1 ELSE 0,
          runArmed   |-> IF newRun THEN flagBefore = 0 ELSE below /\ hh.runArmed,
          runLives   |-> IF newRun THEN livesBefore
                         ELSE IF below THEN hh.runLives ELSE <<0, 0>>,
          runClean   |-> IF newRun THEN TRUE ELSE below /\ hh.runClean,
          runs       |-> bump(newRun, hh.runs),
          lost       |-> bump(livesAfter # livesBefore, hh.lost),
          armedRuns  |-> bump(below /\ ~hh.latched, hh.armedRuns),
          latched    |-> IF below THEN TRUE ELSE IF above THEN FALSE ELSE hh.latched,
          lastDifficulty |-> hh.lastDifficulty,
          loopEnabled |-> hh.loopEnabled ]

ScoreReset(hh) == [hh EXCEPT !.sinceReset = 0]
ConfigBegun(hh) == [hh EXCEPT !.lastDifficulty = "none"]
DifficultySet(hh, d) == [hh EXCEPT !.lastDifficulty = d]
LivesReset(hh) == [hh EXCEPT !.runClean = FALSE]
LoopSet(hh, enabled) == [hh EXCEPT !.loopEnabled = enabled]

----------------------------------------------------------------------------
(* The timer interrupt: TC0's RC compare match calls game_run.             *)

TimerDelivers == tc_irq /\ tc_clk

game_run(maxTicks) ==
    /\ TimerDelivers
    /\ h.nticks < maxTicks
    /\ \E ir_level \in Levels :
       \E direction \in (IF controller_select = MICROBIT_SPEED_CTRL
                         THEN ACC_DIR ELSE {ACC_MIDDLE}) :
       \E button \in (IF controller_select = MICROBIT_SPEED_CTRL
                      THEN {0, 1} ELSE {0}) :
          LET r == game_run_body(controller_select, difficulty_select, user_data,
                                 lives_left, counting_flag, score,
                                 ir_level, direction, button)
          IN  /\ lives_left' = r.lives_left
              /\ counting_flag' = r.counting_flag
              /\ score' = r.score
              /\ log' = r.log
              /\ h' = Observe(h, ir_level, counting_flag, lives_left, r.lives_left)
    /\ UNCHANGED <<configVars, user_data, driverVars, timerVars, mainVars>>

----------------------------------------------------------------------------
(* The main context: game_init, statement by statement.                    *)

game_init_score ==
    /\ pc = "idle"
    /\ pc' = "game_init_lives"
    /\ score' = <<0, 0>>
    /\ h' = ConfigBegun(ScoreReset(h))
    /\ log' = << >>
    /\ UNCHANGED <<lives_left, counting_flag, configVars, user_data, driverVars,
                   timerVars, data, difficulty>>

\* game_init that also clears counting_flag with the lives
game_init_lives_rearms ==
    /\ pc = "game_init_lives"
    /\ pc' = "game_init_motor"
    /\ lives_left' = U32(NUMBER_OF_LIVES)
    /\ counting_flag' = 0
    /\ h' = LivesReset(h)
    /\ log' = << >>
    /\ UNCHANGED <<score, configVars, user_data, driverVars,
                   timerVars, data, difficulty>>

game_init_lives ==
    /\ pc = "game_init_lives"
    /\ pc' = "game_init_motor"
    /\ lives_left' = U32(NUMBER_OF_LIVES)
    /\ h' = LivesReset(h)
    /\ log' = << >>
    /\ UNCHANGED <<score, counting_flag, configVars, user_data, driverVars,
                   timerVars, data, difficulty>>

\* adc_init, servo_init, motor_init, motor_set_microbit_speed, solenoid_init,
\* microbit_init
game_init_motor ==
    /\ pc = "game_init_motor"
    /\ pc' = "game_init_pid"
    /\ mb_speed' = MB_SPEED_HARD
    /\ log' = << <<"motor_set_microbit_speed", MB_SPEED_HARD>> >>
    /\ UNCHANGED <<gameVars, configVars, user_data, pid, timerVars, data, difficulty, h>>

game_init_pid ==
    /\ pc = "game_init_pid"
    /\ pc' = "game_init_timer"
    /\ pid' = [K_p |-> K_P_HARD, K_i |-> K_I_HARD, K_d |-> K_D_HARD,
               max_u |-> MAX_MOTOR_SPEED]
    /\ log' = << <<"pid_controller_init", <<K_P_HARD, K_I_HARD, K_D_HARD>>>> >>
    /\ UNCHANGED <<gameVars, configVars, user_data, mb_speed, timerVars, data,
                   difficulty, h>>

\* game_timer_init that leaves the channel's clock as it is
game_timer_init_clock_kept ==
    /\ pc = "game_init_timer"
    /\ pc' = "idle"
    /\ tc_clk' = tc_clk
    /\ tc_irq' = TRUE
    /\ log' = << >>
    /\ h' = LoopSet(h, FALSE)
    /\ UNCHANGED <<gameVars, configVars, user_data, driverVars, data, difficulty>>

\* game_timer_init: the channel's clock disabled, its interrupt enabled
game_timer_init ==
    /\ pc = "game_init_timer"
    /\ pc' = "idle"
    /\ tc_clk' = FALSE
    /\ tc_irq' = TRUE
    /\ log' = << >>
    /\ h' = LoopSet(h, FALSE)
    /\ UNCHANGED <<gameVars, configVars, user_data, driverVars, data, difficulty>>

----------------------------------------------------------------------------
(* The main context: the calls of one statement.                           *)

\* game_set_controller that starts the score over with the new controller
game_set_controller_restarts ==
    /\ pc = "idle"
    /\ \E controller \in CONTROLLER_SEL : controller_select' = controller
    /\ score' = <<0, 0>>
    /\ h' = ScoreReset(h)
    /\ log' = << >>
    /\ UNCHANGED <<lives_left, counting_flag, difficulty_select, user_data,
                   driverVars, timerVars, mainVars>>

game_set_controller ==
    /\ pc = "idle"
    /\ \E controller \in CONTROLLER_SEL : controller_select' = controller
    /\ log' = << >>
    /\ UNCHANGED <<gameVars, difficulty_select, user_data, driverVars, timerVars,
                   mainVars, h>>

game_timer_enable ==
    /\ pc = "idle"
    /\ tc_clk' = TRUE
    /\ log' = << >>
    /\ h' = LoopSet(h, TRUE)
    /\ UNCHANGED <<gameVars, configVars, user_data, driverVars, tc_irq, mainVars>>

game_timer_disable ==
    /\ pc = "idle"
    /\ tc_clk' = FALSE
    /\ log' = << >>
    /\ h' = LoopSet(h, FALSE)
    /\ UNCHANGED <<gameVars, configVars, user_data, driverVars, tc_irq, mainVars>>

game_get_score ==
    /\ pc = "idle"
    /\ log' = << <<"return", ToInt(score)>> >>
    /\ UNCHANGED <<gameVars, configVars, user_data, driverVars, timerVars, mainVars, h>>

\* game_reset_score that starts a whole new game
game_reset_score_and_lives ==
    /\ pc = "idle"
    /\ score' = <<0, 0>>
    /\ lives_left' = U32(INITIAL_LIVES)
    /\ h' = LivesReset(ScoreReset(h))
    /\ log' = << >>
    /\ UNCHANGED <<counting_flag, configVars, user_data, driverVars,
                   timerVars, mainVars>>

game_reset_score ==
    /\ pc = "idle"
    /\ score' = <<0, 0>>
    /\ h' = ScoreReset(h)
    /\ log' = << >>
    /\ UNCHANGED <<lives_left, counting_flag, configVars, user_data, driverVars,
                   timerVars, mainVars>>

game_reset_lives_left ==
    /\ pc = "idle"
    /\ lives_left' = U32(INITIAL_LIVES)
    /\ h' = LivesReset(h)
    /\ log' = << >>
    /\ UNCHANGED <<score, counting_flag, configVars, user_data, driverVars,
                   timerVars, mainVars>>

----------------------------------------------------------------------------
(* The main context: game_set_difficulty, statement by statement.          *)

game_set_difficulty_pid ==
    /\ pc = "idle"
    /\ \E d \in DIFFICULTY :
          /\ difficulty' = d
          /\ pid' = [pid EXCEPT !.K_p = DifficultyGains(d)[1],
                                !.K_i = DifficultyGains(d)[2],
                                !.K_d = DifficultyGains(d)[3]]
          /\ log' = << <<"pid_controller_set_parameters", DifficultyGains(d)>> >>
    /\ pc' = "game_set_difficulty_speed"
    /\ h' = ConfigBegun(h)
    /\ UNCHANGED <<gameVars, configVars, user_data, mb_speed, timerVars, data>>

game_set_difficulty_speed ==
    /\ pc = "game_set_difficulty_speed"
    /\ pc' = "game_set_difficulty_select"
    /\ mb_speed' = DifficultySpeed(difficulty)
    /\ log' = << <<"motor_set_microbit_speed", DifficultySpeed(difficulty)>> >>
    /\ UNCHANGED <<gameVars, configVars, user_data, pid, timerVars, data, difficulty, h>>

game_set_difficulty_select ==
    /\ pc = "game_set_difficulty_select"
    /\ pc' = "idle"
    /\ difficulty_select' = difficulty
    /\ difficulty' = NoDifficulty
    /\ log' = << <<"difficulty_select", difficulty>> >>
    /\ h' = DifficultySet(h, difficulty)
    /\ UNCHANGED <<gameVars, controller_select, user_data, driverVars, timerVars, data>>

----------------------------------------------------------------------------
(* The main context: game_set_user_data, one field store per step.         *)

UserDataStep(from, to, field, value) ==
    /\ pc = from
    /\ pc' = to
    /\ user_data' = [user_data EXCEPT ![field] = value]
    /\ log' = << >>
    /\ UNCHANGED <<gameVars, configVars, driverVars, timerVars, difficulty, h>>

game_set_user_data_joystick_x ==
    \E frame \in RawFrames :
       /\ UserDataStep("idle", "game_set_user_data_joystick_y",
                       "joystick_x", joystick_scale_x(frame[1]))
       /\ data' = frame

game_set_user_data_joystick_y ==
    /\ UserDataStep("game_set_user_data_joystick_y", "game_set_user_data_slider_left",
                    "joystick_y", joystick_scale_y(data[2]))
    /\ UNCHANGED data

game_set_user_data_slider_left ==
    /\ UserDataStep("game_set_user_data_slider_left", "game_set_user_data_slider_right",
                    "slider_left", slider_scale_left(data[3]))
    /\ UNCHANGED data

game_set_user_data_slider_right ==
    /\ UserDataStep("game_set_user_data_slider_right", "game_set_user_data_button_left",
                    "slider_right", slider_scale_right(data[4]))
    /\ UNCHANGED data

game_set_user_data_button_left ==
    /\ UserDataStep("game_set_user_data_button_left", "game_set_user_data_button_right",
                    "button_left", data[5])
    /\ UNCHANGED data

game_set_user_data_button_right ==
    /\ UserDataStep("game_set_user_data_button_right", "idle",
                    "button_right", data[6])
    /\ data' = NoData

----------------------------------------------------------------------------
(* Specifications.                                                         *)

game_init ==
    \/ game_init_score
    \/ game_init_lives
    \/ game_init_motor
    \/ game_init_pid
    \/ game_timer_init

game_set_difficulty ==
    \/ game_set_difficulty_pid
    \/ game_set_difficulty_speed
    \/ game_set_difficulty_select

game_set_user_data ==
    \/ game_set_user_data_joystick_x
    \/ game_set_user_data_joystick_y
    \/ game_set_user_data_slider_left
    \/ game_set_user_data_slider_right
    \/ game_set_user_data_button_left
    \/ game_set_user_data_button_right

\* every operation of game.c, the timer interrupt between any two statements
Next ==
    \/ game_run(MaxTicks)
    \/ game_init
    \/ game_set_controller
    \/ game_set_difficulty
    \/ game_set_user_data
    \/ game_timer_enable
    \/ game_timer_disable
    \/ game_get_score
    \/ game_reset_score
    \/ game_reset_lives_left

Spec == Init /\ [][Next]_vars

\* the game state alone over long runs of ticks: the operations that write
\* score, lives_left and counting_flag or start and stop the timer
NextLives ==
    \/ game_run(MaxLivesTicks)
    \/ game_init
    \/ game_timer_enable
    \/ game_timer_disable
    \/ game_reset_score
    \/ game_reset_lives_left

SpecLives == Init /\ [][NextLives]_vars

----------------------------------------------------------------------------
(* Reading a log.                                                          *)

\* the step just taken was a tick
TickTaken == log # << >> /\ log[Len(log)][1] = "++score"

\* the positions of the log's entries with one of the names
At(names) == {i \in 1..Len(log) : log[i][1] \in names}

MotorCalls == {"motor_run_slider", "motor_run_joystick", "motor_run_microbit"}
ActuatorCalls == MotorCalls \cup {"servo_set_position", "solenoid_run_button"}

\* every position of a comes before every position of b
Before(a, b) == \A i \in At(a) : \A j \in At(b) : i < j

----------------------------------------------------------------------------
(* C1.  A run of K >= 1 consecutive ticks that each read a level below the *)
(* threshold, begun with counting_flag = 0 and with no write of lives_left *)
(* by game_init or game_reset_lives_left in between, has decremented       *)
(* lives_left exactly once, whatever K is: after the first tick of the run *)
(* lives_left is one less (in unsigned arithmetic) than when the run began *)
(* and it stays there on every following tick of the run.                  *)

C1_OneLifePerLowRun ==
    (h.runLen >= 1 /\ h.runArmed /\ h.runClean) => lives_left = Dec32(h.runLives)

\* a run of three low ticks that began armed with three lives
C1_Witness ==
    /\ h.runLen >= 3 /\ h.runArmed /\ h.runClean
    /\ h.runLives = U32(3)
    /\ lives_left = U32(2)

----------------------------------------------------------------------------
(* C2.  As claimed: over any sequence of ticks, the number of ticks that   *)
(* decrement lives_left equals the number of runs of consecutive           *)
(* below-threshold ticks.                                                  *)

C2_OneLifePerRun == h.lost = h.runs

(* C2 as amended: the number of ticks that decrement lives_left equals the *)
(* number of below-threshold runs when only a tick strictly above the      *)
(* threshold ends a run: below-threshold ticks separated by nothing but    *)
(* ticks exactly at the threshold belong to one run and cost one life.     *)

C2_OneLifePerRunEndedAbove == h.lost = h.armedRuns

\* two lives lost over three runs, two of them separated by a tick at the
\* threshold only
C2_Witness == h.armedRuns = 2 /\ h.runs = 3 /\ h.lost = 2

----------------------------------------------------------------------------
(* C3.  Every tick adds exactly 1 to score, in every control mode (the     *)
(* unmatched one too), difficulty, input, sensor level and counting_flag:  *)
(* score equals the number of ticks since it was last set to 0, modulo     *)
(* 2^32.                                                                   *)

C3_ScoreCountsTicks == score = U32(h.sinceReset)

\* three ticks counted, the last with a controller no case label matches
C3_Witness ==
    /\ TickTaken
    /\ controller_select = OTHER_CTRL
    /\ h.sinceReset = 3
    /\ score = U32(3)

----------------------------------------------------------------------------
(* C4.  A tick sends a message exactly when it decremented lives_left; it  *)
(* sends one message, with id GAME_LIVES_LEFT_ID and data_length 1, whose  *)
(* payload equals lives_left after the decrement.                          *)

C4_MessageCarriesLives ==
    TickTaken =>
        /\ (At({"can_send"}) # {}) <=> (At({"--lives_left"}) # {})
        /\ Cardinality(At({"can_send"})) <= 1
        /\ \A i \in At({"can_send"}) :
              /\ log[i][2].id = GAME_LIVES_LEFT_ID
              /\ log[i][2].data_length = 1
              /\ U32(log[i][2].data) = lives_left

----------------------------------------------------------------------------
(* C5.  As claimed: in a tick the sensor is read and lives_left updated    *)
(* before any actuator call, and score is incremented before the message   *)
(* is sent.                                                                *)

C5_DetectActuateScoreNotify ==
    TickTaken =>
        /\ Before({"adc_read", "--lives_left"}, ActuatorCalls)
        /\ Before(ActuatorCalls, {"++score"})
        /\ Before({"++score"}, {"can_send"})

(* C5 as amended: in a tick the actuator calls of the mode come first,     *)
(* then the failure detection (sensor read and possible decrement), then   *)
(* the message when a failure was counted, and the score increment last.   *)

C5_ActuateDetectNotifyScore ==
    TickTaken =>
        /\ Before(ActuatorCalls, {"adc_read"})
        /\ Before({"adc_read"}, {"--lives_left"})
        /\ Before({"adc_read", "--lives_left"}, {"can_send"})
        /\ Before({"can_send"}, {"++score"})
        /\ At({"adc_read"}) # {}
        /\ At({"++score"}) = {Len(log)}

\* a tick that drove the actuators, counted a failure and sent the message
C5_Witness ==
    /\ TickTaken
    /\ At(ActuatorCalls) # {}
    /\ At({"can_send"}) # {}

----------------------------------------------------------------------------
(* C6.  A tick with SLIDER_POS_CTRL calls motor_run_slider with            *)
(* slider_right under HARD and EXTREME and with SLIDER_MAX - slider_right  *)
(* under IMPOSSIBLE, then servo_set_position with joystick_x, then         *)
(* solenoid_run_button with button_right, and makes no other actuator call.*)

C6_SliderPosition ==
    (TickTaken /\ controller_select = SLIDER_POS_CTRL) =>
        /\ Cardinality(At(ActuatorCalls)) = 3
        /\ log[1] = <<"motor_run_slider",
                      IF difficulty_select \in {HARD, EXTREME}
                      THEN user_data.slider_right
                      ELSE SLIDER_MAX - user_data.slider_right>>
        /\ log[2] = <<"servo_set_position", user_data.joystick_x>>
        /\ log[3] = <<"solenoid_run_button", user_data.button_right>>

\* slider_right 80 under IMPOSSIBLE gives target 20
C6_Witness ==
    /\ TickTaken
    /\ controller_select = SLIDER_POS_CTRL
    /\ difficulty_select = IMPOSSIBLE
    /\ user_data.slider_right = 80
    /\ log[1] = <<"motor_run_slider", 20>>
    /\ log[3] = <<"solenoid_run_button", 1>>

----------------------------------------------------------------------------
(* C7.  A tick with JOYSTICK_SPEED_CTRL calls motor_run_joystick with      *)
(* joystick_x under HARD and EXTREME and with -joystick_x under            *)
(* IMPOSSIBLE, then servo_set_position with 2 * (slider_right - 50), then  *)
(* solenoid_run_button with button_right, and makes no other actuator call.*)

C7_JoystickSpeed ==
    (TickTaken /\ controller_select = JOYSTICK_SPEED_CTRL) =>
        /\ Cardinality(At(ActuatorCalls)) = 3
        /\ log[1] = <<"motor_run_joystick",
                      IF difficulty_select \in {HARD, EXTREME}
                      THEN user_data.joystick_x
                      ELSE 0 - user_data.joystick_x>>
        /\ log[2] = <<"servo_set_position", 2 * (user_data.slider_right - 50)>>
        /\ log[3] = <<"solenoid_run_button", user_data.button_right>>

\* joystick_x 100 under IMPOSSIBLE gives speed -100, servo 2 * (80 - 50)
C7_Witness ==
    /\ TickTaken
    /\ controller_select = JOYSTICK_SPEED_CTRL
    /\ difficulty_select = IMPOSSIBLE
    /\ user_data.joystick_x = 100
    /\ log[1] = <<"motor_run_joystick", 0 - 100>>
    /\ log[2] = <<"servo_set_position", 60>>

----------------------------------------------------------------------------
(* C8.  A tick with MICROBIT_SPEED_CTRL calls motor_run_microbit with the  *)
(* direction microbit_dir returned, except that under IMPOSSIBLE left      *)
(* becomes right and right becomes left (any other direction is passed     *)
(* on); it calls servo_set_position with joystick_x and solenoid_run_button*)
(* with what microbit_button returned, not with user_data.button_right.    *)

C8_Swapped(direction) ==
    CASE direction = ACC_LEFT  -> ACC_RIGHT
      [] direction = ACC_RIGHT -> ACC_LEFT
      [] OTHER                 -> direction

C8_AccelerometerSpeed ==
    (TickTaken /\ controller_select = MICROBIT_SPEED_CTRL) =>
        /\ Cardinality(At(ActuatorCalls)) = 3
        /\ log[1][1] = "microbit_dir"
        /\ log[2] = <<"motor_run_microbit",
                      IF difficulty_select = IMPOSSIBLE
                      THEN C8_Swapped(log[1][2]) ELSE log[1][2]>>
        /\ log[3] = <<"servo_set_position", user_data.joystick_x>>
        /\ log[4][1] = "microbit_button"
        /\ log[5] = <<"solenoid_run_button", log[4][2]>>

\* left sensed under IMPOSSIBLE drives right; the solenoid follows the
\* microbit's button while the snapshot's button_right says otherwise
C8_Witness ==
    /\ TickTaken
    /\ controller_select = MICROBIT_SPEED_CTRL
    /\ difficulty_select = IMPOSSIBLE
    /\ log[1] = <<"microbit_dir", ACC_LEFT>>
    /\ log[2] = <<"motor_run_microbit", ACC_RIGHT>>
    /\ log[5] = <<"solenoid_run_button", 1>>
    /\ user_data.button_right = 0

----------------------------------------------------------------------------
(* C9.  When game_set_difficulty(d) returns, the PID gains and the         *)
(* microbit speed are the row of d -- (35, 20, 1, 0x4FF) for HARD,         *)
(* (20, 10, 1, 0x3FF) for EXTREME, (40, 25, 1, 0x4FF) for IMPOSSIBLE --    *)
(* and difficulty_select is d, also when ticks ran during the call; they   *)
(* stay so until the next game_set_difficulty or game_init begins, so      *)
(* every tick in between runs with the gains, speed and inversion of d.    *)

C9_Row(d) ==
    CASE d = HARD       -> <<35, 20, 1, 1279>>
      [] d = EXTREME    -> <<20, 10, 1, 1023>>
      [] d = IMPOSSIBLE -> <<40, 25, 1, 1279>>

C9_DifficultyPushed ==
    \A d \in DIFFICULTY :
        /\ (log = << <<"difficulty_select", d>> >>) =>
              (pc = "idle" /\ h.lastDifficulty = d)
        /\ (h.lastDifficulty = d) =>
              /\ <<pid.K_p, pid.K_i, pid.K_d, mb_speed>> = C9_Row(d)
              /\ difficulty_select = d

\* a tick after game_set_difficulty(EXTREME) returned runs with the EXTREME
\* gains and speed and without inversion
C9_Witness ==
    /\ h.lastDifficulty = EXTREME
    /\ mb_speed = 1023
    /\ pid.K_p = 20
    /\ TickTaken
    /\ user_data.slider_right = 80
    /\ log[1] = <<"motor_run_slider", 80>>

----------------------------------------------------------------------------
(* C10.  The fields of user_data a tick passes to the actuators all come   *)
(* from one whole snapshot: the scaling of one raw frame (or the zeroes    *)
(* user_data starts with), never some fields of the frame being stored and *)
(* the others of the snapshot before it.                                   *)

WholeSnapshots == {ZeroUserData} \cup {Scaled(frame) : frame \in RawFrames}

\* the user_data fields game_run reads under a controller
FieldsRead(controller) ==
    CASE controller = SLIDER_POS_CTRL     -> {"slider_right", "joystick_x", "button_right"}
      [] controller = JOYSTICK_SPEED_CTRL -> {"joystick_x", "slider_right", "button_right"}
      [] controller = MICROBIT_SPEED_CTRL -> {"joystick_x"}
      [] OTHER                            -> {}

C10_TickReadsWholeSnapshot ==
    TickTaken =>
        \E whole \in WholeSnapshots :
            \A field \in FieldsRead(controller_select) : user_data[field] = whole[field]

----------------------------------------------------------------------------
(* C11.  The configuration a tick runs with is the configuration of one    *)
(* difficulty: the PID gains and the microbit speed in force and the       *)
(* difficulty_select the tick inverts by are the row and the name of the   *)
(* same difficulty, also in a tick that interrupts game_set_difficulty.    *)

\* the gains and speed in force are the row of difficulty d
RowInForce(d) ==
    /\ <<pid.K_p, pid.K_i, pid.K_d>> = DifficultyGains(d)
    /\ mb_speed = DifficultySpeed(d)

SetDifficultyInProgress ==
    pc \in {"game_set_difficulty_speed", "game_set_difficulty_select"}

C11_TickSeesOneDifficulty ==
    (TickTaken /\ SetDifficultyInProgress) => RowInForce(difficulty_select)

----------------------------------------------------------------------------
(* C12.  A tick is delivered only while the loop is enabled: after         *)
(* game_init has returned and after game_timer_disable has returned no     *)
(* tick is delivered until game_timer_enable is called.                    *)
(* game_timer_disable can be called between any two calls of the main      *)
(* context, whatever the state (never enabled, already disabled, before    *)
(* game_init), and changes nothing of the game state, the configuration,   *)
(* the input snapshot or the drivers.                                      *)

\* the step is a tick
TickStep == h'.nticks = h.nticks + 1

C12_TicksOnlyWhileEnabled ==
    /\ [](pc = "idle" => ENABLED game_timer_disable)
    /\ [][ /\ TickStep => h.loopEnabled
           /\ game_timer_disable =>
                 /\ ~h'.loopEnabled
                 /\ UNCHANGED <<gameVars, configVars, user_data, driverVars,
                                mainVars>> ]_vars

\* the loop was enabled and ticked and has been disabled since; the main
\* context is between two calls
C12_Witness ==
    /\ h.nticks >= 1
    /\ ~h.loopEnabled
    /\ ~tc_clk
    /\ pc = "idle"
    /\ log = << >>
    /\ ENABLED game_timer_disable

----------------------------------------------------------------------------
(* C13.  When game_init returns, from whatever state it was called in      *)
(* (loop enabled or not), score is 0, lives_left is 3, the PID gains and   *)
(* the microbit speed are those of HARD (35, 20, 1, 0x4FF), and the timer  *)
(* interrupt is enabled with the channel's clock stopped.                  *)

\* the step is the return of game_init
InitReturns == pc = "game_init_timer" /\ pc' = "idle"

C13_InitLeavesFreshGame ==
    [][ InitReturns =>
          /\ score' = U32(0)
          /\ lives_left' = U32(3)
          /\ <<pid'.K_p, pid'.K_i, pid'.K_d, mb_speed'>> = <<35, 20, 1, 1279>>
          /\ tc_irq' /\ ~tc_clk' ]_vars

----------------------------------------------------------------------------
(* C14.  game_reset_score sets score to 0 and game_reset_lives_left sets   *)
(* lives_left to the count game_init assigns (NUMBER_OF_LIVES), each from  *)
(* any prior value and changing nothing else; game_get_score returns the   *)
(* current score and changes nothing.                                      *)

----------------------------------------------------------------------------
(* C15.  Once game_init has run, whenever the main context is between two  *)
(* calls the gains and the speed cap last pushed to the drivers are the    *)
(* table row of difficulty_select.                                         *)

C15_StoredDifficultyInForce ==
    (pc = "idle" /\ tc_irq) => RowInForce(difficulty_select)

----------------------------------------------------------------------------
(* C16.  A tick whose adc_read() sample equals IR_TRESHOLD changes neither *)
(* counting_flag nor lives_left and sends no message; a tick decrements    *)
(* lives_left only on a sample below IR_TRESHOLD and clears counting_flag  *)
(* only on a sample above it.                                              *)

\* the log lg holds an adc_read() that returned one of levels
Sampled(lg, levels) ==
    \E i \in 1..Len(lg) : lg[i][1] = "adc_read" /\ lg[i][2] \in levels

Sent(lg) == \E i \in 1..Len(lg) : lg[i][1] = "can_send"

C16_ThresholdSampleChangesNothing ==
    [][ TickStep =>
          /\ Sampled(log', {IR_TRESHOLD}) =>
                /\ counting_flag' = counting_flag
                /\ lives_left' = lives_left
                /\ ~Sent(log')
          /\ lives_left' # lives_left =>
                Sampled(log', {l \in Levels : l < IR_TRESHOLD})
          /\ (counting_flag = 1 /\ counting_flag' = 0) =>
                Sampled(log', {l \in Levels : l > IR_TRESHOLD}) ]_vars

\* a tick sampled IR_TRESHOLD while the flag was set by an earlier tick, and
\* the flag is still set
C16_Witness ==
    /\ TickTaken
    /\ Sampled(log, {IR_TRESHOLD})
    /\ counting_flag = 1
    /\ h.latched /\ h.runLen = 0 /\ h.lost >= 1

----------------------------------------------------------------------------
(* C17.  Whatever controller_select holds, a tick samples the IR level,    *)
(* decrements lives_left and sends the message on a counted failure, and   *)
(* increments score.  With a controller_select outside the three cases the *)
(* tick calls no motor, servo or solenoid function; with                   *)
(* MICROBIT_SPEED_CTRL it calls motor_run_microbit, servo_set_position and *)
(* solenoid_run_button once each and nothing else.                         *)

\* the positions of lg's entries with one of the names
CallsIn(lg, names) == {i \in 1..Len(lg) : lg[i][1] \in names}

C17_EveryModeDetectsAndScores ==
    [][ TickStep =>
          /\ Sampled(log', Levels)
          /\ score' = Inc32(score)
          /\ (Sampled(log', {l \in Levels : l < IR_TRESHOLD}) /\ counting_flag = 0)
                => (lives_left' = Dec32(lives_left) /\ counting_flag' = 1)
          /\ Sent(log') <=> lives_left' # lives_left
          /\ controller_select \notin
                {SLIDER_POS_CTRL, JOYSTICK_SPEED_CTRL, MICROBIT_SPEED_CTRL}
                => CallsIn(log', ActuatorCalls) = {}
          /\ controller_select = MICROBIT_SPEED_CTRL =>
                /\ Cardinality(CallsIn(log', ActuatorCalls)) = 3
                /\ \A n \in {"motor_run_microbit", "servo_set_position",
                             "solenoid_run_button"} :
                      Cardinality(CallsIn(log', {n})) = 1 ]_vars

\* a tick with a controller_select outside the three cases counted a failure
\* and sent the message, and called no actuator
C17_Witness ==
    /\ TickTaken
    /\ controller_select = OTHER_CTRL
    /\ At(ActuatorCalls) = {}
    /\ Sent(log)
    /\ counting_flag = 1 /\ h.lost >= 1
    /\ score # U32(0)

----------------------------------------------------------------------------
(* C18.  counting_flag changes only in a tick: it goes from 0 to 1 only in *)
(* a tick that decrements lives_left and from 1 to 0 only in a tick whose  *)
(* sample is above IR_TRESHOLD.  No call from the main context changes it, *)
(* so a tick that continues a run of below-threshold samples which began   *)
(* with the flag clear loses no life, even when lives_left was restored    *)
(* during the run.                                                         *)

C18_FlagChangesOnlyInTicks ==
    [][ /\ counting_flag' # counting_flag => TickStep
        /\ (counting_flag = 0 /\ counting_flag' = 1) =>
              (lives_left' = Dec32(lives_left) /\ Sent(log'))
        /\ (counting_flag = 1 /\ counting_flag' = 0) =>
              Sampled(log', {l \in Levels : l > IR_TRESHOLD})
        /\ (TickStep /\ h.runLen >= 1 /\ h.runArmed
              /\ Sampled(log', {l \in Levels : l < IR_TRESHOLD})) =>
              (lives_left' = lives_left /\ counting_flag' = 1) ]_vars

\* lives_left was restored during a run of below-threshold ticks that had
\* cost a life, and the next tick of the run left it at 3
C18_Witness ==
    /\ TickTaken
    /\ h.runLen >= 2 /\ h.runArmed /\ ~h.runClean
    /\ h.lost >= 1
    /\ lives_left = U32(NUMBER_OF_LIVES)
    /\ counting_flag = 1

----------------------------------------------------------------------------
(* C19.  lives_left is always one of 0 .. NUMBER_OF_LIVES, and the data of *)
(* every message a tick sends is one of these values.                      *)

C19_LivesWithinRange ==
    /\ \E n \in 0..NUMBER_OF_LIVES : lives_left = U32(n)
    /\ TickTaken =>
          \A i \in At({"can_send"}) : log[i][2].data \in 0..NUMBER_OF_LIVES

----------------------------------------------------------------------------
(* C20.  game_set_controller, game_set_difficulty, game_set_user_data,     *)
(* game_timer_enable and game_timer_disable leave score and lives_left     *)
(* unchanged; a tick leaves controller_select, difficulty_select and       *)
(* user_data unchanged; lives_left is decremented only by a tick that      *)
(* sampled below IR_TRESHOLD with counting_flag clear, and every other     *)
(* change of it is the store of NUMBER_OF_LIVES by game_init or            *)
(* game_reset_lives_left.                                                  *)

C20_WrittenOnlyByOwners ==
    [][ /\ (\/ game_set_controller
            \/ game_set_difficulty
            \/ game_set_user_data
            \/ game_timer_enable
            \/ game_timer_disable) => UNCHANGED <<score, lives_left>>
        /\ TickStep => UNCHANGED <<controller_select, difficulty_select, user_data>>
        /\ lives_left' # lives_left =>
              \/ /\ TickStep
                 /\ counting_flag = 0
                 /\ Sampled(log', {l \in Levels : l < IR_TRESHOLD})
                 /\ lives_left' = Dec32(lives_left)
              \/ /\ game_init_lives \/ game_reset_lives_left
                 /\ lives_left' = U32(NUMBER_OF_LIVES) ]_vars

\* two ticks have counted and one cost a life; game_set_controller has
\* returned and game_set_difficulty has just pushed the speed, and score and
\* lives_left are what the ticks left
C20_Witness ==
    /\ pc = "game_set_difficulty_select"
    /\ Len(log) = 1 /\ log[1][1] = "motor_set_microbit_speed"
    /\ controller_select = JOYSTICK_SPEED_CTRL
    /\ h.nticks = 2 /\ h.lost = 1
    /\ score = U32(2)
    /\ lives_left = U32(2)

====
